---- MODULE Spec2Model ----
(***************************************************************************)
(* A model of the logging facade of package helpers (src/logger.go): the   *)
(* process-wide handle zapLogger, InitLogger and its configuration         *)
(* resolution, the level-gated Log<Level> calls and the already-logged     *)
(* Error value of LogError.                                                *)
(*                                                                         *)
(* The zap backend is modelled by the part of its contract the facade      *)
(* relies on: Config.Build returns (nil, err) when the configuration       *)
(* cannot be built, a method call on a nil *zap.Logger dereferences nil    *)
(* and panics, Core().Enabled(l) is l >= threshold, a record is written    *)
(* only when its level is enabled, Fatal exits the process after writing,  *)
(* and the production template carries a sampler (first 100 records of a   *)
(* message per second, then every 100th).                                  *)
(***************************************************************************)
EXTENDS Integers, Sequences, FiniteSets, TLC

\* ------------------------------------------------------------ constants

LogLevelInfo == "info"
LogLevelDebug == "debug"
LogLevelError == "error"
LogFormatJSON == "json"
LogFormatText == "text"

\* zapcore.Level values of the severities the facade uses
DebugLevel == -1
InfoLevel == 0
WarnLevel == 1
ErrorLevel == 2
FatalLevel == 5

Severities == {DebugLevel, InfoLevel, WarnLevel, ErrorLevel, FatalLevel}

\* the request id the facade uses for its own records
InternalRequestID == "internal"

InvalidFormatMsg == "Invalid log format provided switching to log format json"
InvalidLevelMsg == "Invalid log level provided switching to log level info"

\* ------------------------------------------------------------ input sets

LevelArgs == {LogLevelDebug, LogLevelInfo, LogLevelError, "verbose"}
FormatArgs == {LogFormatJSON, LogFormatText, "xml"}
RequestIDs == {"r1", "r2"}
Messages == {"m1", "m2"}

\* fields map[string]interface{}: nil, or a map (here the empty one)
NoFields == [present |-> FALSE, size |-> 0]
FieldArgs == {NoFields, [present |-> TRUE, size |-> 0]}

\* error values: the nil interface, an ordinary error (errors.New(text)),
\* and a value of type Error (message, rawError)
NilErr == [kind |-> "nil", message |-> "", rawError |-> ""]
PlainErr(text) == [kind |-> "plain", message |-> text, rawError |-> ""]

NewError(message, rawError) == [kind |-> "Error", message |-> message, rawError |-> rawError]

ErrorMethod(e) == e.message

RawError(e) == e.rawError

IsErrorType(e) == e.kind = "Error"

ErrArgs ==
    {NilErr, PlainErr("boom")}
        \cup {NewError(m, r) : m \in Messages, r \in {"", "boom"}}

\* the override callbacks configCb[0] the model draws from
NoCb == [kind |-> "none", level |-> 0, encoding |-> ""]
Callbacks ==
    {NoCb}
        \cup {[kind |-> "setLevel", level |-> l, encoding |-> ""] :
                    l \in {DebugLevel, WarnLevel, FatalLevel}}
        \cup {[kind |-> "setEncoding", level |-> 0, encoding |-> "bogus"]}

\* ------------------------------------------------------------ backend

\* the nil *zap.Logger
NilLogger ==
    [nil |-> TRUE, level |-> 0, encoding |-> "", development |-> FALSE, sampling |-> FALSE]

NewProductionConfig ==
    [Level |-> InfoLevel, Development |-> FALSE, Sampling |-> TRUE,
     Encoding |-> "json", EncodeLevel |-> "lowercase"]

NewDevelopmentConfig ==
    [Level |-> DebugLevel, Development |-> TRUE, Sampling |-> FALSE,
     Encoding |-> "console", EncodeLevel |-> "capital"]

\* config.Build: (logger, err); a configuration zap cannot build gives (nil, err)
BuildErr == PlainErr("build failed")
Build(config) ==
    IF config.Encoding \in {"json", "console"}
    THEN [logger |-> [nil |-> FALSE, level |-> config.Level, encoding |-> config.Encoding,
                      development |-> config.Development, sampling |-> config.Sampling],
          err |-> NilErr]
    ELSE [logger |-> NilLogger, err |-> BuildErr]

\* h.Core().Enabled(sev) on a non-nil handle
CoreEnabled(h, sev) == sev >= h.level

\* one record handed to handle h: a nil handle panics, a disabled level writes
\* nothing.  What the sampler of a production logger does with a burst of equal
\* records is modelled where the volume is, in SpecConc.
NoKey == "<no key>"
Entry(sev, msg, requestID, cause, fields) ==
    [level |-> sev, msg |-> msg, requestId |-> requestID, error |-> cause,
     hasFields |-> fields.present, fields |-> fields.size]
Write(h, entry) ==
    IF h.nil THEN [panic |-> TRUE, recs |-> <<>>]
    ELSE IF CoreEnabled(h, entry.level) THEN [panic |-> FALSE, recs |-> <<entry>>]
    ELSE [panic |-> FALSE, recs |-> <<>>]

\* ------------------------------------------------------------ state

VARIABLES
    zapLogger,  \* the process-wide handle (var zapLogger *zap.Logger)
    stdLog,     \* the logger the standard library's log output is redirected to
    proc,       \* "running", "panicked" (nil dereference) or "exited" (Fatal)
    last,       \* the last facade call: its arguments and what it did
    wr,         \* a goroutine inside InitLogger: where it is and what it built
    rd,         \* goroutines inside a Log<Level> or Log<Level>Enabled call
    raced,      \* zapLogger was stored by InitLogger with readers already running
    cl,         \* goroutines issuing LogInfo calls: where each is, calls left
    counts,     \* the sampler's count of the message in the current second
    emittedCount, \* records written by the LogInfo goroutines
    ticks       \* seconds elapsed while they run

raceVars == <<wr, rd, raced>>
concVars == <<cl, counts, emittedCount, ticks>>
vars == <<zapLogger, stdLog, proc, last, wr, rd, raced, cl, counts, emittedCount, ticks>>

NoCall ==
    [op |-> "init", level |-> LogLevelInfo, format |-> LogFormatJSON, isDev |-> FALSE,
     cb |-> NoCb, sev |-> InfoLevel, rid |-> "", msg |-> "", err |-> NilErr,
     fields |-> NoFields, before |-> NilLogger, emitted |-> <<>>, ret |-> NilErr,
     enabled |-> FALSE, outcome |-> "returned", trace |-> <<>>,
     resolved |-> NewProductionConfig, hops |-> 0, chainE |-> NilErr, chainEmitted |-> 0,
     twoHop |-> FALSE]

\* ------------------------------------------------------------ facade

\* LogInfo: one Info record through handle h, the fields key only when fields != nil
LogInfo(h, requestID, message, fields) ==
    Write(h, Entry(InfoLevel, message, requestID, NoKey, fields))

LogWarn(h, requestID, message, fields) ==
    Write(h, Entry(WarnLevel, message, requestID, NoKey, fields))

LogDebug(h, requestID, message, fields) ==
    Write(h, Entry(DebugLevel, message, requestID, NoKey, fields))

\* zap writes the Fatal record and then exits the process
LogFatal(h, requestID, message, fields) ==
    Write(h, Entry(FatalLevel, message, requestID, NoKey, fields))

\* Log<Level>Enabled: zapLogger.Core().Enabled(sev); a nil handle panics
LogEnabled(h, sev) ==
    IF h.nil THEN [panic |-> TRUE, value |-> FALSE]
    ELSE [panic |-> FALSE, value |-> CoreEnabled(h, sev)]

\* getLogFormat: the encoding name; an unknown format logs through the handle
\* held at the time of the call and falls back to json
getLogFormat(h, logFormat) ==
    IF logFormat = LogFormatJSON THEN [value |-> LogFormatJSON, panic |-> FALSE, recs |-> <<>>]
    ELSE IF logFormat = LogFormatText THEN [value |-> "console", panic |-> FALSE, recs |-> <<>>]
    ELSE LET w == LogInfo(h, InternalRequestID, InvalidFormatMsg, NoFields)
         IN  [value |-> LogFormatJSON, panic |-> w.panic, recs |-> w.recs]

\* getLogLevel with the fallback left unlogged
getLogLevel_Silent(h, logLevel) ==
    IF logLevel = LogLevelDebug THEN [value |-> DebugLevel, panic |-> FALSE, recs |-> <<>>]
    ELSE IF logLevel = LogLevelInfo THEN [value |-> InfoLevel, panic |-> FALSE, recs |-> <<>>]
    ELSE IF logLevel = LogLevelError THEN [value |-> ErrorLevel, panic |-> FALSE, recs |-> <<>>]
    ELSE [value |-> InfoLevel, panic |-> FALSE, recs |-> <<>>]

\* getLogLevel with "error" resolved to the warn threshold
getLogLevel_ErrorAsWarn(h, logLevel) ==
    IF logLevel = LogLevelDebug THEN [value |-> DebugLevel, panic |-> FALSE, recs |-> <<>>]
    ELSE IF logLevel = LogLevelInfo THEN [value |-> InfoLevel, panic |-> FALSE, recs |-> <<>>]
    ELSE IF logLevel = LogLevelError THEN [value |-> WarnLevel, panic |-> FALSE, recs |-> <<>>]
    ELSE LET w == LogInfo(h, InternalRequestID, InvalidLevelMsg, NoFields)
         IN  [value |-> InfoLevel, panic |-> w.panic, recs |-> w.recs]

\* getLogLevel: the threshold; an unknown level logs through the handle held at
\* the time of the call and falls back to info
getLogLevel(h, logLevel) ==
    IF logLevel = LogLevelDebug THEN [value |-> DebugLevel, panic |-> FALSE, recs |-> <<>>]
    ELSE IF logLevel = LogLevelInfo THEN [value |-> InfoLevel, panic |-> FALSE, recs |-> <<>>]
    ELSE IF logLevel = LogLevelError THEN [value |-> ErrorLevel, panic |-> FALSE, recs |-> <<>>]
    ELSE LET w == LogInfo(h, InternalRequestID, InvalidLevelMsg, NoFields)
         IN  [value |-> InfoLevel, panic |-> w.panic, recs |-> w.recs]

\* configCb[0](&config)
ApplyCb(cb, config) ==
    IF cb.kind = "setLevel" THEN [config EXCEPT !.Level = cb.level]
    ELSE IF cb.kind = "setEncoding" THEN [config EXCEPT !.Encoding = cb.encoding]
    ELSE config

\* the template InitLogger starts from
BaseConfig(logFormat, isDev) ==
    IF isDev
    THEN IF logFormat = LogFormatText
         THEN [NewDevelopmentConfig EXCEPT !.EncodeLevel = "capitalColor"]
         ELSE NewDevelopmentConfig
    ELSE NewProductionConfig

\* the configuration InitLogger hands to Build: encoding and level resolved from
\* the arguments, then the callback, when one is supplied, applied to the result
FinalConfig(base, encoding, level, cb) ==
    LET resolved == [base EXCEPT !.Encoding = encoding, !.Level = level]
    IN  IF cb.kind # "none" THEN ApplyCb(cb, resolved) ELSE resolved

\* InitLogger run on handle h: what it emits, the steps it takes (trace), the
\* value it leaves in zapLogger (logger) and what it returns (ret)
InitLoggerRun(h, loglevel, logFormat, isDev, cb) ==
    LET base == BaseConfig(logFormat, isDev)
        f == getLogFormat(h, logFormat)
        l == getLogLevel(h, loglevel)
        resolved == [base EXCEPT !.Encoding = f.value, !.Level = l.value]
        config == FinalConfig(base, f.value, l.value, cb)
        b == Build(config)
        cbStep == IF cb.kind # "none" THEN <<"configCb">> ELSE <<>>
    IN  IF f.panic
        THEN [outcome |-> "panic", emitted |-> <<>>, trace |-> <<"getLogFormat">>,
              resolved |-> base, logger |-> h, ret |-> NilErr, redirect |-> FALSE]
        ELSE IF l.panic
        THEN [outcome |-> "panic", emitted |-> f.recs,
              trace |-> <<"getLogFormat", "getLogLevel">>,
              resolved |-> base, logger |-> h, ret |-> NilErr, redirect |-> FALSE]
        ELSE IF b.err # NilErr
        THEN [outcome |-> "returned", emitted |-> f.recs \o l.recs,
              trace |-> <<"getLogFormat", "getLogLevel">> \o cbStep \o <<"Build">>,
              resolved |-> resolved, logger |-> b.logger, ret |-> b.err,
              redirect |-> FALSE]
        ELSE [outcome |-> "returned", emitted |-> f.recs \o l.recs,
              trace |-> <<"getLogFormat", "getLogLevel">> \o cbStep
                            \o <<"Build", "RedirectStdLog">>,
              resolved |-> resolved, logger |-> b.logger, ret |-> NilErr,
              redirect |-> TRUE]

\* LogError without the type assertion: an Error value is logged again
LogError_Relog(h, requestID, message, err, fields) ==
    LET cause == IF err = NilErr THEN PlainErr("") ELSE err
        w == Write(h, Entry(ErrorLevel, message, requestID, ErrorMethod(cause), fields))
    IN  IF w.panic
        THEN [outcome |-> "panic", emitted |-> <<>>, ret |-> NilErr]
        ELSE [outcome |-> "returned", emitted |-> w.recs,
              ret |-> NewError(message, ErrorMethod(cause))]

\* LogError that wraps an Error value again under the call's own message
LogError_Rewrap(h, requestID, message, err, fields) ==
    IF IsErrorType(err)
    THEN [outcome |-> "returned", emitted |-> <<>>,
          ret |-> NewError(message, RawError(err))]
    ELSE LET cause == IF err = NilErr THEN PlainErr("") ELSE err
             w == Write(h, Entry(ErrorLevel, message, requestID, ErrorMethod(cause), fields))
         IN  IF w.panic
             THEN [outcome |-> "panic", emitted |-> <<>>, ret |-> NilErr]
             ELSE [outcome |-> "returned", emitted |-> w.recs,
                   ret |-> NewError(message, ErrorMethod(cause))]

\* LogError run on handle h
LogError(h, requestID, message, err, fields) ==
    IF IsErrorType(err)
    THEN [outcome |-> "returned", emitted |-> <<>>, ret |-> err]
    ELSE LET cause == IF err = NilErr THEN PlainErr("") ELSE err
             w == Write(h, Entry(ErrorLevel, message, requestID, ErrorMethod(cause), fields))
         IN  IF w.panic
             THEN [outcome |-> "panic", emitted |-> <<>>, ret |-> NilErr]
             ELSE [outcome |-> "returned", emitted |-> w.recs,
                   ret |-> NewError(message, ErrorMethod(cause))]

\* ------------------------------------------------------------ actions

\* longest chain of LogError calls, each fed the previous one's return value
MaxHops == 3

\* func init(): InitLogger(LogLevelInfo, LogFormatJSON, false), its error ignored
InitialLogger == InitLoggerRun(NilLogger, LogLevelInfo, LogFormatJSON, FALSE, NoCb).logger

\* the goroutines of the concurrent specifications
Readers == {"g1", "g2"}
NCallers == 2
Callers == 1..NCallers

Idle == [pc |-> "idle", built |-> NilLogger, old |-> NilLogger, call |-> 0]
NotReading == [pc |-> "idle", seen |-> NilLogger, complete |-> TRUE, during |-> FALSE,
               call |-> 0]

Init ==
    /\ zapLogger = InitialLogger
    /\ stdLog = InitialLogger
    /\ proc = "running"
    /\ last = NoCall
    /\ wr = Idle
    /\ rd = [r \in Readers |-> NotReading]
    /\ raced = FALSE
    /\ cl = [c \in Callers |-> [pc |-> "done", left |-> 0, seen |-> NilLogger]]
    /\ counts = 0
    /\ emittedCount = 0
    /\ ticks = 0

After(outcome) == IF outcome = "panic" THEN "panicked" ELSE "running"

InitLogger(loglevel, logFormat, isDev, cb) ==
    /\ proc = "running"
    /\ LET r == InitLoggerRun(zapLogger, loglevel, logFormat, isDev, cb)
       IN  /\ zapLogger' = r.logger
           /\ stdLog' = IF r.redirect THEN r.logger ELSE stdLog
           /\ proc' = After(r.outcome)
           /\ last' = [NoCall EXCEPT !.op = "InitLogger", !.level = loglevel,
                          !.format = logFormat, !.isDev = isDev, !.cb = cb,
                          !.before = zapLogger, !.emitted = r.emitted, !.ret = r.ret,
                          !.outcome = r.outcome, !.trace = r.trace,
                          !.resolved = r.resolved]
    /\ UNCHANGED <<raceVars, concVars>>

\* err is the previous LogError call's return value, passed up one layer
Propagated(err) ==
    /\ last.op = "LogError"
    /\ last.outcome = "returned"
    /\ err = last.ret

CallLogError(requestID, message, err, fields) ==
    /\ proc = "running"
    /\ Propagated(err) => last.hops < MaxHops
    /\ LET r == LogError(zapLogger, requestID, message, err, fields)
           hop == Propagated(err)
       IN  /\ proc' = After(r.outcome)
           /\ last' = [NoCall EXCEPT !.op = "LogError", !.rid = requestID,
                          !.msg = message, !.err = err, !.fields = fields,
                          !.before = zapLogger, !.emitted = r.emitted, !.ret = r.ret,
                          !.outcome = r.outcome,
                          !.hops = IF hop THEN last.hops + 1 ELSE 1,
                          !.chainE = IF hop THEN last.chainE ELSE err,
                          !.twoHop = /\ hop
                                     /\ last.hops = 1
                                     /\ last.rid = requestID
                                     /\ last.msg = message
                                     /\ last.fields = NoFields
                                     /\ fields = NoFields,
                          !.chainEmitted =
                              (IF hop THEN last.chainEmitted ELSE 0) + Len(r.emitted)]
    /\ UNCHANGED <<zapLogger, stdLog, raceVars, concVars>>

Logged(op, sev, requestID, message, fields, w) ==
    [NoCall EXCEPT !.op = op, !.sev = sev, !.rid = requestID, !.msg = message,
        !.fields = fields, !.before = zapLogger, !.emitted = w.recs,
        !.outcome = IF w.panic THEN "panic" ELSE "returned"]

CallLogWarn(requestID, message, fields) ==
    /\ proc = "running"
    /\ LET w == LogWarn(zapLogger, requestID, message, fields)
       IN  /\ proc' = IF w.panic THEN "panicked" ELSE "running"
           /\ last' = Logged("LogWarn", WarnLevel, requestID, message, fields, w)
    /\ UNCHANGED <<zapLogger, stdLog, raceVars, concVars>>

CallLogInfo(requestID, message, fields) ==
    /\ proc = "running"
    /\ LET w == LogInfo(zapLogger, requestID, message, fields)
       IN  /\ proc' = IF w.panic THEN "panicked" ELSE "running"
           /\ last' = Logged("LogInfo", InfoLevel, requestID, message, fields, w)
    /\ UNCHANGED <<zapLogger, stdLog, raceVars, concVars>>

CallLogDebug(requestID, message, fields) ==
    /\ proc = "running"
    /\ LET w == LogDebug(zapLogger, requestID, message, fields)
       IN  /\ proc' = IF w.panic THEN "panicked" ELSE "running"
           /\ last' = Logged("LogDebug", DebugLevel, requestID, message, fields, w)
    /\ UNCHANGED <<zapLogger, stdLog, raceVars, concVars>>

CallLogFatal(requestID, message, fields) ==
    /\ proc = "running"
    /\ LET w == LogFatal(zapLogger, requestID, message, fields)
       IN  /\ proc' = IF w.panic THEN "panicked" ELSE "exited"
           /\ last' = Logged("LogFatal", FatalLevel, requestID, message, fields, w)
    /\ UNCHANGED <<zapLogger, stdLog, raceVars, concVars>>

\* LogErrorEnabled, LogWarnEnabled, LogInfoEnabled, LogDebugEnabled, LogFatalEnabled
CallLogEnabled(sev) ==
    /\ proc = "running"
    /\ LET e == LogEnabled(zapLogger, sev)
       IN  /\ proc' = IF e.panic THEN "panicked" ELSE "running"
           /\ last' = [NoCall EXCEPT !.op = "LogEnabled", !.sev = sev,
                          !.before = zapLogger, !.enabled = e.value,
                          !.outcome = IF e.panic THEN "panic" ELSE "returned"]
    /\ UNCHANGED <<zapLogger, stdLog, raceVars, concVars>>

Next ==
    \/ \E l \in LevelArgs, f \in FormatArgs, d \in BOOLEAN, cb \in Callbacks :
           InitLogger(l, f, d, cb)
    \/ \E r \in RequestIDs, m \in Messages, e \in ErrArgs, fs \in FieldArgs :
           CallLogError(r, m, e, fs)
    \/ \E r \in RequestIDs, m \in Messages, fs \in FieldArgs : CallLogWarn(r, m, fs)
    \/ \E r \in RequestIDs, m \in Messages, fs \in FieldArgs : CallLogInfo(r, m, fs)
    \/ \E r \in RequestIDs, m \in Messages, fs \in FieldArgs : CallLogDebug(r, m, fs)
    \/ \E r \in RequestIDs, m \in Messages, fs \in FieldArgs : CallLogFatal(r, m, fs)
    \/ \E s \in Severities : CallLogEnabled(s)

Spec == Init /\ [][Next]_vars

\* ------------------------------------------------------------ claims

ValidLevels == {LogLevelDebug, LogLevelInfo, LogLevelError}
ValidFormats == {LogFormatJSON, LogFormatText}

\* the build of the last InitLogger call failed
BuildFailed ==
    /\ last.op = "InitLogger"
    /\ last.outcome = "returned"
    /\ last.trace[Len(last.trace)] = "Build"

\* C1 (as claimed): when InitLogger's build fails, InitLogger returns a non-nil
\* error and the handle that was active before the call is still the active one,
\* neither replaced by a new instance nor by nil.
C1_FailedBuildKeepsLogger ==
    BuildFailed => /\ last.ret # NilErr
                   /\ zapLogger = last.before
                   /\ ~zapLogger.nil

\* C4 (as claimed): an InitLogger call with an unrecognized level or format
\* returns normally, whatever InitLogger calls came before; it never panics.
C4_InvalidConfigNeverPanics ==
    (/\ last.op = "InitLogger"
     /\ (last.level \notin ValidLevels \/ last.format \notin ValidFormats))
        => (last.outcome = "returned" /\ proc = "running")

\* the number of entries of recs that carry message msg at level sev
RECURSIVE CountOf(_, _, _)
CountOf(recs, sev, msg) ==
    IF recs = <<>> THEN 0
    ELSE (IF Head(recs).level = sev /\ Head(recs).msg = msg THEN 1 ELSE 0)
             + CountOf(Tail(recs), sev, msg)

C3_LoggedStaysLogged ==
    (last.op = "LogError" /\ IsErrorType(last.err))
        => /\ last.outcome = "returned"
           /\ proc = "running"
           /\ last.emitted = <<>>
           /\ last.ret = last.err
           /\ ErrorMethod(last.ret) = ErrorMethod(last.err)
           /\ RawError(last.ret) = RawError(last.err)

C3_Witness ==
    /\ last.op = "LogError"
    /\ IsErrorType(last.err)
    /\ last.msg # ErrorMethod(last.err)
    /\ last.fields.present
    /\ last.hops = MaxHops
    /\ zapLogger.nil

\* the threshold a successful InitLogger call is to leave: the callback's level
\* when it sets one, and otherwise debug, info or error as the level argument says
Threshold(level, cb) ==
    IF cb.kind = "setLevel" THEN cb.level
    ELSE IF level = "debug" THEN -1
    ELSE IF level = "error" THEN 2
    ELSE 0

\* C6: after a successful InitLogger with a recognized level, Log<S>Enabled()
\* is true exactly for the severities at or above the resolved threshold
\* (level "error": false for debug, info and warn, true for error and fatal),
\* and no call other than InitLogger changes what Log<S>Enabled() returns.
C6_EnabledGating ==
    /\ [](  (/\ last.op = "InitLogger"
             /\ last.outcome = "returned"
             /\ last.ret = NilErr
             /\ last.level \in ValidLevels)
                => \A s \in Severities :
                       LogEnabled(zapLogger, s)
                           = [panic |-> FALSE,
                              value |-> s >= Threshold(last.level, last.cb)])
    /\ [][last'.op # "InitLogger"
              => /\ \A s \in Severities :
                        LogEnabled(zapLogger', s) = LogEnabled(zapLogger, s)
                 /\ (last'.op = "LogEnabled" /\ last'.outcome = "returned")
                        => last'.enabled = LogEnabled(zapLogger, last'.sev).value]_vars

C6_Witness ==
    /\ last.op = "LogEnabled"
    /\ last.sev = InfoLevel
    /\ last.enabled = FALSE
    /\ zapLogger.level = ErrorLevel
    /\ LogEnabled(zapLogger, ErrorLevel).value

\* the places of step in a trace
Places(trace, step) == {i \in 1..Len(trace) : trace[i] = step}

\* C9 (as claimed): a callback supplied to InitLogger is invoked exactly once,
\* after the level and format have been resolved and before the build, and what
\* it sets is what the new logger uses.
C9_CallbackInvokedOnceLast ==
    (last.op = "InitLogger" /\ last.cb # NoCb)
        => /\ Cardinality(Places(last.trace, "configCb")) = 1
           /\ \A i \in Places(last.trace, "configCb") :
                  /\ Places(last.trace, "getLogFormat") = {i - 2}
                  /\ Places(last.trace, "getLogLevel") = {i - 1}
                  /\ Places(last.trace, "Build") = {i + 1}
           /\ last.ret = NilErr => zapLogger = Build(ApplyCb(last.cb, last.resolved)).logger

\* C10 (as claimed): LogError(rid, msg, nil, nil) does not fail; it emits one
\* Error record with the empty string as its cause, the request id and no
\* fields key, and returns an Error whose Error() is msg and RawError() is "".
\* The record is asked for wherever the threshold in force permits Error, as
\* every threshold the level argument can set does.
C10_NilErrLogsEmptyCause ==
    (last.op = "LogError" /\ last.err = NilErr /\ last.fields = NoFields)
        => /\ last.outcome = "returned"
           /\ proc = "running"
           /\ IsErrorType(last.ret)
           /\ ErrorMethod(last.ret) = last.msg
           /\ RawError(last.ret) = ""
           /\ zapLogger.level <= ErrorLevel
                  => last.emitted = <<Entry(ErrorLevel, last.msg, last.rid, "", NoFields)>>

\* ------------------------------------------------------------ InitLogger beside readers

(***************************************************************************)
(* SpecRace: one goroutine runs InitLogger while the goroutines of Readers *)
(* run Log<Level> and Log<Level>Enabled calls.  zapLogger is a plain       *)
(* package variable: InitLogger stores to it and the facade methods load   *)
(* it with no synchronisation in between.  A load that observes a pointer  *)
(* stored by a racing goroutine is not ordered after the writes that       *)
(* initialised what it points to (the Go memory model's example of         *)
(* incorrect synchronisation), so the reader may or may not see the        *)
(* instance complete.                                                      *)
(***************************************************************************)

\* InitLogger calls made while the readers run
MaxInits == 2

\* lines 31-46, right-hand side: the configuration is resolved and built
RaceInitCall(loglevel, logFormat, isDev, cb) ==
    /\ proc = "running"
    /\ wr.pc = "idle"
    /\ wr.call < MaxInits
    /\ LET r == InitLoggerRun(zapLogger, loglevel, logFormat, isDev, cb)
       IN  /\ proc' = After(r.outcome)
           /\ wr' = IF r.outcome = "panic" THEN wr
                    ELSE [pc |-> "built", built |-> r.logger, old |-> zapLogger,
                          call |-> wr.call + 1]
    /\ UNCHANGED <<zapLogger, stdLog, last, rd, raced, concVars>>

\* line 46, the assignment: the result of Build, nil included, is stored
RaceInitStore ==
    /\ proc = "running"
    /\ wr.pc = "built"
    /\ zapLogger' = wr.built
    /\ raced' = TRUE
    /\ wr' = [wr EXCEPT !.pc = "stored"]
    /\ UNCHANGED <<stdLog, proc, last, rd, concVars>>

\* lines 47-51: return the error, or redirect the standard log and return nil
RaceInitReturn ==
    /\ proc = "running"
    /\ wr.pc = "stored"
    /\ stdLog' = IF wr.built.nil THEN stdLog ELSE wr.built
    /\ wr' = [wr EXCEPT !.pc = "idle"]
    /\ UNCHANGED <<zapLogger, proc, last, rd, raced, concVars>>

\* a facade method loads zapLogger
ReaderLoad(r) ==
    /\ proc = "running"
    /\ rd[r].pc = "idle"
    /\ \E complete \in BOOLEAN :
           /\ ~complete => (raced /\ ~zapLogger.nil)
           /\ rd' = [rd EXCEPT ![r] =
                        [pc |-> "loaded", seen |-> zapLogger, complete |-> complete,
                         during |-> wr.pc # "idle", call |-> wr.call]]
    /\ UNCHANGED <<zapLogger, stdLog, proc, last, wr, raced, concVars>>

\* the method calls into the handle it loaded: a nil handle panics, and so may
\* one whose fields are not yet visible
ReaderUse(r) ==
    /\ proc = "running"
    /\ rd[r].pc = "loaded"
    /\ \E crash \in BOOLEAN :
           /\ rd[r].seen.nil => crash
           /\ (~rd[r].seen.nil /\ rd[r].complete) => ~crash
           /\ proc' = IF crash THEN "panicked" ELSE "running"
    /\ rd' = [rd EXCEPT ![r] = NotReading]
    /\ UNCHANGED <<zapLogger, stdLog, last, wr, raced, concVars>>

RaceNext ==
    \/ \E l \in LevelArgs, f \in FormatArgs, d \in BOOLEAN, cb \in Callbacks :
           RaceInitCall(l, f, d, cb)
    \/ RaceInitStore
    \/ RaceInitReturn
    \/ \E r \in Readers : ReaderLoad(r)
    \/ \E r \in Readers : ReaderUse(r)

SpecRace == Init /\ [][RaceNext]_vars

\* C7 (as claimed): a Log<Level> or Log<Level>Enabled call that runs while an
\* InitLogger call is in progress observes either the complete instance that
\* was active before that call or the complete instance it built, never a
\* partially constructed or empty handle.
C7_ReaderSeesOldOrNew ==
    \A r \in Readers :
        (rd[r].pc = "loaded" /\ rd[r].during)
            => /\ ~rd[r].seen.nil
               /\ rd[r].complete
               /\ (wr.pc # "idle" /\ wr.call = rd[r].call)
                      => rd[r].seen \in {wr.old, wr.built}

\* ------------------------------------------------------------ concurrent LogInfo

(***************************************************************************)
(* SpecConc: NCallers goroutines each issue CallsPerCaller LogInfo calls   *)
(* with the same message through a logger that permits info.  The          *)
(* production template InitLogger starts from when isDev is false enables  *)
(* zap's sampler: of the records with one level and message in one second  *)
(* it writes the first SamplingInitial and then every SamplingThereafter-th*)
(* one.  The development template has no sampler.                          *)
(***************************************************************************)

CallsPerCaller == 51
MaxTicks == 1

\* zap.NewProductionConfig: Sampling{Initial: 100, Thereafter: 100}
SamplingInitial == 100
SamplingThereafter == 100

\* the sampler's decision on the n-th record of a message in the current second
SamplerAdmits(h, n) ==
    \/ ~h.sampling
    \/ n <= SamplingInitial
    \/ (n - SamplingInitial) % SamplingThereafter = 0

\* the loggers InitLogger builds from recognized arguments that permit info
InfoLoggers ==
    {InitLoggerRun(InitialLogger, l, LogFormatJSON, d, NoCb).logger :
         l \in {LogLevelInfo, LogLevelDebug}, d \in BOOLEAN}

ConcInit ==
    /\ zapLogger \in InfoLoggers
    /\ stdLog = zapLogger
    /\ proc = "running"
    /\ last = NoCall
    /\ wr = Idle
    /\ rd = [r \in Readers |-> NotReading]
    /\ raced = FALSE
    /\ cl = [c \in Callers |-> [pc |-> "idle", left |-> CallsPerCaller, seen |-> NilLogger]]
    /\ counts = 0
    /\ emittedCount = 0
    /\ ticks = 0

\* LogInfo, entry: the goroutine loads zapLogger
ConcLoad(c) ==
    /\ cl[c].pc = "idle"
    /\ cl[c].left > 0
    /\ cl' = [cl EXCEPT ![c] = [pc |-> "loaded", left |-> cl[c].left, seen |-> zapLogger]]
    /\ UNCHANGED <<zapLogger, stdLog, proc, last, raceVars, counts, emittedCount, ticks>>

\* LogInfo, zapLogger.Info: the level check, the sampler and the locked write
ConcEmit(c) ==
    /\ cl[c].pc = "loaded"
    /\ LET w == LogInfo(cl[c].seen, "r1", "m1", NoFields)
           n == counts + Len(w.recs)
       IN  /\ counts' = n
           /\ emittedCount' =
                  emittedCount + (IF w.recs # <<>> /\ SamplerAdmits(cl[c].seen, n) THEN 1 ELSE 0)
    /\ cl' = [cl EXCEPT ![c] =
                 [pc |-> IF cl[c].left = 1 THEN "done" ELSE "idle",
                  left |-> cl[c].left - 1, seen |-> NilLogger]]
    /\ UNCHANGED <<zapLogger, stdLog, proc, last, raceVars, ticks>>

\* a second passes: the sampler starts counting afresh
ConcTick ==
    /\ ticks < MaxTicks
    /\ \E c \in Callers : cl[c].pc # "done"
    /\ ticks' = ticks + 1
    /\ counts' = 0
    /\ UNCHANGED <<zapLogger, stdLog, proc, last, raceVars, cl, emittedCount>>

ConcNext ==
    \/ \E c \in Callers : ConcLoad(c)
    \/ \E c \in Callers : ConcEmit(c)
    \/ ConcTick

SpecConc == ConcInit /\ [][ConcNext]_vars

\* C8 (as claimed): once the NCallers goroutines have each completed their
\* CallsPerCaller LogInfo calls, the number of emitted records is
\* NCallers * CallsPerCaller: no record is lost.
C8_NoRecordLost ==
    (\A c \in Callers : cl[c].pc = "done")
        => emittedCount = NCallers * CallsPerCaller

====
